---------------------------- MODULE Spec2Model ----------------------------
(***************************************************************************)
(* The API audit logger of codex-cli (ApiLogger).  The repository holds    *)
(* several revisions of the class; three of them are modelled here:        *)
(*                                                                         *)
(*   "clean"  src/unnamed/part_001: logRequest / logResponse /             *)
(*            logApiCycle, with the duplicate guard requestLogged;         *)
(*   "corr"   src/codex-cli/src/utils/api-logger.ts lines 1-382:           *)
(*            logResponsesRequest / logResponsesResponse /                 *)
(*            logChatCompletionsRequest / logChatCompletionsResponse /     *)
(*            handlePossibleStreamController, writing through appendToLog. *)
(*   "split"  src/codex-cli/src/utils/api-logger.ts lines 384-519:         *)
(*            logResponsesApi / logChatCompletionsApi, one log file per    *)
(*            API.                                                         *)
(*                                                                         *)
(* JavaScript runs each of these synchronous methods to completion, so     *)
(* every method call is one atomic action.  The log file is modelled by    *)
(* the sequence of entries written to it, a payload by its JSON structure, *)
(* the callers' request objects by a heap the logger holds references to.  *)
(***************************************************************************)
EXTENDS Integers, Sequences, FiniteSets, TLC

(***************************************************************************)
(* JavaScript values.  A plain object is a function from its own           *)
(* enumerable field names to values; cyc marks an object that holds a      *)
(* circular reference (JSON.stringify throws on it).  A handle is a        *)
(* runtime object without enumerable fields (an AbortController).          *)
(***************************************************************************)
NullV == [kind |-> "null"]
UndefV == [kind |-> "undef"]
HandleV == [kind |-> "handle"]
StrV(s) == [kind |-> "str", s |-> s]
ObjV(fields) == [kind |-> "obj", f |-> fields, cyc |-> FALSE]
CycV(fields) == [kind |-> "obj", f |-> fields, cyc |-> TRUE]
EmptyObj == ObjV(<<>>)

\* JavaScript truthiness: `if (!data)`, `if (clone.headers)`.
Truthy(v) ==
  /\ v.kind \notin {"null", "undef"}
  /\ ~(v.kind = "str" /\ v.s = "")

\* typeof v === 'object' (null included, as in JavaScript).
IsObject(v) == v.kind \in {"obj", "handle", "null"}

\* Property read v.k: undefined when v has no such own field.
Get(v, k) == IF v.kind = "obj" /\ k \in DOMAIN v.f THEN v.f[k] ELSE UndefV

\* JSON.stringify(v) throws: v reaches a circular reference.
RECURSIVE Serializable(_)
Serializable(v) ==
  IF v.kind # "obj" THEN TRUE
  ELSE ~v.cyc /\ \A k \in DOMAIN v.f : Serializable(v.f[k])

\* JSON.parse(JSON.stringify(v)) for a serializable v: fields holding
\* undefined are dropped, a handle becomes the empty object.
RECURSIVE JsonClone(_)
JsonClone(v) ==
  CASE v.kind = "handle" -> EmptyObj
    [] v.kind = "obj" ->
         ObjV([k \in {j \in DOMAIN v.f : v.f[j].kind # "undef"} |-> JsonClone(v.f[k])])
    [] OTHER -> v

\* { ...data }: a new object with the same top-level fields; the nested
\* objects (and the cycle) are shared with the original.
ShallowClone(v) == IF v.kind = "handle" THEN EmptyObj ELSE v

REDACTED == StrV("[REDACTED]")
AuthKeys == {"authorization", "Authorization"}
HeaderFields == {"headers", "defaultHeaders"}

\* The two `if (h.authorization)` / `if (h.Authorization)` assignments.
RedactHeaders(h) ==
  IF h.kind # "obj" THEN h
  ELSE [h EXCEPT !.f = [k \in DOMAIN h.f |->
          IF k \in AuthKeys /\ Truthy(h.f[k]) THEN REDACTED ELSE h.f[k]]]

\* The redactions without the one of the top-level apiKey.
RedactHeadersOnly(c) ==
  IF c.kind # "obj" THEN c
  ELSE [c EXCEPT !.f = [k \in DOMAIN c.f |->
          IF k \in HeaderFields /\ Truthy(c.f[k])
            THEN RedactHeaders(c.f[k]) ELSE c.f[k]]]

\* The redactions were the apiKey replaced by a note of what it was.
RedactTagging(c) ==
  IF c.kind # "obj" THEN c
  ELSE [c EXCEPT !.f = [k \in DOMAIN c.f |->
          CASE k \in HeaderFields /\ Truthy(c.f[k]) -> RedactHeaders(c.f[k])
            [] k = "apiKey" /\ Truthy(c.f[k]) -> ObjV([redacted |-> StrV(c.f[k].kind)])
            [] OTHER -> c.f[k]]]

\* The redactions applied to the clone.
Redact(c) ==
  IF c.kind # "obj" THEN c
  ELSE [c EXCEPT !.f = [k \in DOMAIN c.f |->
          CASE k \in HeaderFields /\ Truthy(c.f[k]) -> RedactHeaders(c.f[k])
            [] k = "apiKey" /\ Truthy(c.f[k]) -> REDACTED
            [] OTHER -> c.f[k]]]

\* sanitizeData: the value returned.
sanitizeData(data) ==
  IF ~Truthy(data) THEN data
  ELSE IF Serializable(data) THEN Redact(JsonClone(data))
  ELSE Redact(ShallowClone(data))

\* sanitizeData: the argument object as the call leaves it.  Under the
\* shallow-copy fallback the clone shares headers and defaultHeaders with
\* the argument, so the assignments to them land in the argument too.
SanitizedInput(data) ==
  IF Truthy(data) /\ ~Serializable(data) /\ data.kind = "obj"
    THEN [data EXCEPT !.f = [k \in DOMAIN data.f |->
            IF k \in HeaderFields /\ Truthy(data.f[k])
              THEN RedactHeaders(data.f[k]) ELSE data.f[k]]]
    ELSE data

(***************************************************************************)
(* Bounds of the model and the inputs the callers draw from.               *)
(***************************************************************************)
MaxLog == 2        \* entries appended to the log file after its header

CallerIds == {"r1"}
\* The identifiers generateRequestId / generateId hands out, in order.
GenIds == <<"g1">>
GeneratedIds == {GenIds[i] : i \in 1..Len(GenIds)}
Ids == CallerIds \cup GeneratedIds

\* References to the request objects the callers own; null, and the
\* undefined a record without a chatRequest field yields.
NullRef == "null"
UndefRef == "undefined"
ReqA == ObjV([model |-> StrV("x"), headers |-> ObjV([authorization |-> StrV("secret")])])
ReqB == ObjV([model |-> StrV("y")])
ChatReq == ObjV([messages |-> StrV("m"), apiKey |-> StrV("sk-secret")])
\* A request that embeds the client object, which points back at it.
ReqCyc == CycV([model |-> StrV("x"), headers |-> ObjV([Authorization |-> StrV("secret")])])
InitHeap == [o1 |-> ReqA, o2 |-> ReqB, o3 |-> ReqCyc, c1 |-> ChatReq]

\* The payloads sanitizeData is applied to.  A payload may have headers,
\* defaultHeaders, a top-level apiKey and an options field; Absent marks a
\* field the payload does not have.
Absent == [kind |-> "absent"]
Secret == StrV("secret")
KeySecret == StrV("sk-secret")
Secrets == {Secret, KeySecret}
\* Spellings of the authorization header name.
AuthSpellings == {"authorization", "Authorization", "AUTHORIZATION"}
HeaderShapes ==
  {Absent}
  \cup {ObjV(k :> v) : k \in AuthSpellings, v \in {Secret, StrV("")}}
  \cup {ObjV([authorization |-> Secret, Authorization |-> Secret,
               accept |-> StrV("json")])}
DefaultHeaderShapes ==
  {Absent, ObjV([Authorization |-> Secret]), ObjV([authorization |-> StrV("")])}
ApiKeyShapes == {Absent, KeySecret, StrV("")}
\* options: a field that holds undefined, a runtime object (AbortController),
\* or the options of a client with its own apiKey.
OptionShapes == {Absent, UndefV, HandleV, ObjV([apiKey |-> KeySecret])}
PayloadFields(h, d, a, o) ==
  LET all == [headers |-> h, defaultHeaders |-> d, apiKey |-> a, options |-> o]
  IN [k \in {j \in DOMAIN all : all[j] # Absent} |-> all[k]]
Payloads ==
  {ObjV(PayloadFields(h, d, a, o)) :
     h \in HeaderShapes, d \in DefaultHeaderShapes, a \in ApiKeyShapes,
     o \in OptionShapes}
  \cup {CycV(PayloadFields(h, d, a, o)) :
     h \in HeaderShapes, d \in DefaultHeaderShapes, a \in ApiKeyShapes,
     o \in OptionShapes}

\* A call site: its name and the request objects it passes.  siteA talks to
\* the native provider, siteB to a translated one.
SiteA == [name |-> "siteA", request |-> "o1", chatRequest |-> NullRef]
SiteB == [name |-> "siteB", request |-> "o2", chatRequest |-> "c1"]
SiteC == [name |-> "siteC", request |-> "o3", chatRequest |-> NullRef]
Sites == {SiteA, SiteB, SiteC}
\* The sites that log a whole cycle in one call.
CycleSites == {SiteA}
\* The sites NextCycle draws from: a native and a translated one.
WholeCycleSites == {SiteA, SiteB}
\* The sites of the native provider and of the translated ones.
NativeSites == {s \in Sites : s.chatRequest = NullRef}
TranslatedSites == Sites \ NativeSites

\* Responses handed to the logger (by value).
RealResp == ObjV([id |-> StrV("resp1"), output |-> StrV("ok")])
CtlOnly == ObjV([controller |-> HandleV])
StreamObj == ObjV([controller |-> HandleV, iterator |-> HandleV])
TextResp == StrV("text")
ChatResp == ObjV([id |-> StrV("chat1")])
\* A response whose controller field holds undefined.
NoCtl == ObjV([id |-> StrV("resp1"), controller |-> UndefV])
Responses == {RealResp, CtlOnly, StreamObj, EmptyObj, TextResp, NullV, NoCtl}
ChatResponses == {NullV, ChatResp}
\* What the callers of logResponse pass once a stream has ended.
StreamedResponses == {RealResp, CtlOnly}
\* What the callers of logApiCycle pass as the response.
CycleResponses == {RealResp, CtlOnly}

\* The chat response a site passes with a whole cycle.
SiteChatResponse(site) == IF site.chatRequest = NullRef THEN NullV ELSE ChatResp

\* debugInfo strings: the caller's name, and the suffix logApiCycle and
\* handlePossibleStreamController add when they forward to the request logger.
Direct(name) == [site |-> name, via |-> "direct"]
Via(name, op) == [site |-> name, via |-> op]

VARIABLES
  rev,                     \* the revision of the class that is loaded
  envLogApiRaw,            \* process.env["LOG_API_RAW"] === "true"
  apiLogger,               \* the module's singleton: FALSE is null
  enabled,                 \* this.enabled
  disableResponseStorage,  \* this.disableResponseStorage
  pendingRequests,         \* this.pendingRequests: id -> record
  requestLogged,           \* this.requestLogged (clean revision)
  dirExists,               \* ~/.codex/api-logs exists
  fileExists,              \* the session's log file exists
  log,                     \* the entries in the log file
  fsOk,                    \* the file system accepts writes
  heap,                    \* the callers' request objects
  genCount,                \* identifiers generated so far
  threw,                   \* the most recent call threw to its caller
  reported,                \* the most recent call called console.error
  hist,                    \* history of the calls made for each caller id
  clone,                   \* the values sanitizeData returned to a direct caller
  responsesLog,            \* the entries in ~/.codex/api_responses_<date>
  chatCompLog,             \* the entries in ~/.codex/api_chatcomp_<date>
  returned                 \* what handlePossibleStreamController returned last

loggerVars == <<enabled, disableResponseStorage, pendingRequests, requestLogged>>
fsVars == <<dirExists, fileExists, log>>
splitVars == <<responsesLog, chatCompLog>>
envVars == <<rev, envLogApiRaw, fsOk, clone, splitVars, returned>>
histVars == <<hist>>
vars == <<rev, envLogApiRaw, apiLogger, enabled, disableResponseStorage,
          pendingRequests, requestLogged, dirExists, fileExists, log, fsOk,
          heap, genCount, threw, reported, hist, clone, responsesLog,
          chatCompLog, returned>>

\* How a call would end without the try / catch around its body: the
\* failure reaches the caller and nothing is reported.
ReturnsUncaught(rep) == threw' = rep /\ reported' = FALSE

\* How a call ended: whether an exception reached the caller, and whether
\* console.error was called.
Returns(rep) == threw' = FALSE /\ reported' = rep
Throws == threw' = TRUE /\ reported' = FALSE
NoId == "-"

Deref(r) ==
  CASE r = NullRef -> NullV
    [] r = UndefRef -> UndefV
    [] OTHER -> heap[r]

\* JSON.stringify(value, null, 2) as the text of a section.
Stringify(v) == JsonClone(v)
PendingNote == StrV("Response will be logged separately after streaming completes")
Section(label, body) == [label |-> label, body |-> body]

(***************************************************************************)
(* The log file.  An entry is what one appendFileSync call wrote (its      *)
(* timestamp line left out): the DEBUG-CALLSITE / CALLER line (op, from, id, *)
(* reqFrom), the ">>> Response storage disabled" line (note), the          *)
(* "!!! NO MATCHING REQUEST FOUND !!!" line (nomatch) and the labelled     *)
(* sections in the order written.                                          *)
(***************************************************************************)
Entry(op, from, id, reqFrom, note, nomatch, sections) ==
  [op |-> op, from |-> from, id |-> id, reqFrom |-> reqFrom,
   note |-> note, nomatch |-> nomatch, sections |-> sections]

\* "API REQUEST/RESPONSE LOG - SESSION: ..." written by the constructor.
Header == Entry("header", NoId, NoId, NoId, FALSE, FALSE, <<>>)
\* ">>> --disable-response-storage mode active"
MarkerEntry == Entry("marker", NoId, NoId, NoId, FALSE, FALSE, <<>>)

Entries(l) == SelectSeq(l, LAMBDA e : e.op # "header")
\* The model follows the file up to MaxLog entries.
Room == Len(Entries(log')) <= MaxLog

\* fs.appendFileSync / fs.writeFileSync succeed.
CanWrite == fsOk /\ dirExists

(***************************************************************************)
(* The constructor and getApiLogger (both revisions have the same text).   *)
(***************************************************************************)
\* mkdirSync stands outside every try: a failure leaves the constructor.
ConstructorThrows == ~dirExists /\ ~fsOk

Constructor ==
  /\ dirExists' = TRUE
  /\ enabled' = envLogApiRaw
  /\ disableResponseStorage' = FALSE
  /\ pendingRequests' = <<>>
  /\ requestLogged' = {}
  /\ IF envLogApiRaw /\ fsOk
       THEN log' = <<Header>> /\ fileExists' = TRUE
       ELSE UNCHANGED <<log, fileExists>>

\* getApiLogger without its `if (!apiLogger)` test: every call constructs.
getApiLoggerAlwaysNew ==
  /\ IF ConstructorThrows THEN
       /\ UNCHANGED <<apiLogger, loggerVars, fsVars>>
       /\ Throws
     ELSE
       /\ Constructor
       /\ apiLogger' = TRUE
       /\ Returns(envLogApiRaw /\ ~fsOk)
  /\ UNCHANGED <<envVars, heap, genCount, histVars>>

GetApiLogger ==
  /\ IF apiLogger THEN
       /\ UNCHANGED <<apiLogger, loggerVars, fsVars>>
       /\ Returns(FALSE)
     ELSE IF ConstructorThrows THEN
       /\ UNCHANGED <<apiLogger, loggerVars, fsVars>>
       /\ Throws
     ELSE
       /\ Constructor
       /\ apiLogger' = TRUE
       /\ Returns(envLogApiRaw /\ ~fsOk)
  /\ UNCHANGED <<envVars, heap, genCount, histVars>>

(***************************************************************************)
(* The clean revision (src/unnamed/part_001).                              *)
(***************************************************************************)
\* The heap after sanitizeData ran on the objects in refs.
HeapAfterSanitize(refs) ==
  [r \in DOMAIN heap |-> IF r \in refs THEN SanitizedInput(heap[r]) ELSE heap[r]]

RequestSections(request, chatRequest) ==
  <<Section("RESPONSES FORMAT REQUEST", Stringify(sanitizeData(request)))>>
  \o (IF Truthy(chatRequest)
        THEN <<Section("CHAT COMPLETIONS FORMAT REQUEST (TRANSLATED)",
                       Stringify(sanitizeData(chatRequest)))>>
        ELSE <<>>)

\* The response sections were the final response to come before the
\* translated one.
ResponseSectionsFinalFirst(chatResponse, responsesResponse) ==
  <<Section(IF Truthy(chatResponse)
              THEN "RESPONSES FORMAT RESPONSE (BACK-TRANSLATED)"
              ELSE "RESPONSES FORMAT RESPONSE",
            Stringify(sanitizeData(responsesResponse)))>>
  \o (IF Truthy(chatResponse)
        THEN <<Section("CHAT COMPLETIONS FORMAT RESPONSE",
                       Stringify(sanitizeData(chatResponse)))>>
        ELSE <<>>)

\* The response sections were the " (BACK-TRANSLATED)" suffix never added.
ResponseSectionsPlainLabel(chatResponse, responsesResponse) ==
  (IF Truthy(chatResponse)
     THEN <<Section("CHAT COMPLETIONS FORMAT RESPONSE",
                    Stringify(sanitizeData(chatResponse)))>>
     ELSE <<>>)
  \o <<Section("RESPONSES FORMAT RESPONSE",
               Stringify(sanitizeData(responsesResponse)))>>

ResponseSections(chatResponse, responsesResponse) ==
  (IF Truthy(chatResponse)
     THEN <<Section("CHAT COMPLETIONS FORMAT RESPONSE",
                    Stringify(sanitizeData(chatResponse)))>>
     ELSE <<>>)
  \o <<Section(IF Truthy(chatResponse)
                 THEN "RESPONSES FORMAT RESPONSE (BACK-TRANSLATED)"
                 ELSE "RESPONSES FORMAT RESPONSE",
               Stringify(sanitizeData(responsesResponse)))>>

\* Every JSON.stringify of the entry goes through.
CanFormat(request, chatRequest, chatResponse, responsesResponse) ==
  /\ Serializable(sanitizeData(request))
  /\ Truthy(chatRequest) => Serializable(sanitizeData(chatRequest))
  /\ Truthy(chatResponse) => Serializable(sanitizeData(chatResponse))
  /\ Serializable(sanitizeData(responsesResponse))

\* logRequest's try block runs to its end: every JSON.stringify and the
\* fs.appendFileSync go through.
LogRequestWrites(request, chatRequest) ==
  /\ CanFormat(Deref(request), Deref(chatRequest), NullV, NullV)
  /\ CanWrite

\* logRequest lines 167-214: the guard set, the pending record (the caller's
\* objects, by reference) and the interim entry.
\* logRequest were a failed write to switch the logger off.
logRequestInsertDisabling(requestId, request, chatRequest, debugInfo) ==
  /\ requestLogged' = requestLogged \cup {requestId}
  /\ heap' = HeapAfterSanitize({request, chatRequest})
  /\ pendingRequests' =
       [i \in DOMAIN pendingRequests \cup {requestId} |->
          IF i = requestId
            THEN [request |-> request,
                  chatRequest |-> chatRequest, debugInfo |-> debugInfo]
            ELSE pendingRequests[i]]
  /\ IF LogRequestWrites(request, chatRequest)
       THEN /\ log' = Append(log,
                 Entry("logRequest", debugInfo, requestId, NoId,
                       disableResponseStorage, FALSE,
                       RequestSections(Deref(request), Deref(chatRequest))
                       \o <<Section("RESPONSES FORMAT RESPONSE", PendingNote)>>))
            /\ fileExists' = TRUE
            /\ enabled' = enabled
       ELSE UNCHANGED <<log, fileExists>> /\ enabled' = FALSE
  /\ UNCHANGED <<disableResponseStorage, dirExists>>

logRequestInsert(requestId, request, chatRequest, debugInfo) ==
  /\ requestLogged' = requestLogged \cup {requestId}
  /\ heap' = HeapAfterSanitize({request, chatRequest})
  /\ pendingRequests' =
       [i \in DOMAIN pendingRequests \cup {requestId} |->
          IF i = requestId
            THEN [request |-> request,
                  chatRequest |-> chatRequest, debugInfo |-> debugInfo]
            ELSE pendingRequests[i]]
  /\ IF LogRequestWrites(request, chatRequest)
       THEN /\ log' = Append(log,
                 Entry("logRequest", debugInfo, requestId, NoId,
                       disableResponseStorage, FALSE,
                       RequestSections(Deref(request), Deref(chatRequest))
                       \o <<Section("RESPONSES FORMAT RESPONSE", PendingNote)>>))
            /\ fileExists' = TRUE
       ELSE UNCHANGED <<log, fileExists>>
  /\ UNCHANGED <<enabled, disableResponseStorage, dirExists>>

\* logRequest were it to lack the `requestLogged.has(requestId)` return.
logRequestUnguarded(requestId, request, chatRequest, debugInfo) ==
  logRequestInsert(requestId, request, chatRequest, debugInfo)

\* logRequest were its guard to consult the pending store instead.
logRequestPendingGuard(requestId, request, chatRequest, debugInfo) ==
  IF requestId \in DOMAIN pendingRequests
    THEN UNCHANGED <<loggerVars, fsVars, heap>>
    ELSE logRequestInsert(requestId, request, chatRequest, debugInfo)

\* logRequest lines 164-214, below the `if (!this.enabled)` return.
\* logRequest were the flag to decide whether the request is kept for
\* correlation.
logRequestStorageAware(requestId, request, chatRequest, debugInfo) ==
  IF requestId \in requestLogged \/ disableResponseStorage
    THEN UNCHANGED <<loggerVars, fsVars, heap>>
    ELSE logRequestInsert(requestId, request, chatRequest, debugInfo)

logRequestBody(requestId, request, chatRequest, debugInfo) ==
  IF requestId \in requestLogged
    THEN UNCHANGED <<loggerVars, fsVars, heap>>
    ELSE logRequestInsert(requestId, request, chatRequest, debugInfo)

\* console.error was called by logRequest.
logRequestReports(requestId, request, chatRequest) ==
  /\ enabled
  /\ requestId \notin requestLogged
  /\ ~LogRequestWrites(request, chatRequest)

\* The history kept for a caller id: "none", then "req1" after one
\* request-logging call, "req2" after a second one, and "resp" from the first
\* response-logging call on.
Requested(id) ==
  [i \in DOMAIN hist |->
     IF i # id THEN hist[i]
     ELSE CASE hist[i] = "none" -> "req1"
            [] hist[i] = "req1" -> "req2"
            [] OTHER -> hist[i]]
Responded(id) == [i \in DOMAIN hist |-> IF i = id THEN "resp" ELSE hist[i]]

LogRequest(requestId, site) ==
  /\ rev = "clean" /\ apiLogger
  /\ IF enabled
       THEN logRequestBody(requestId, site.request, site.chatRequest, Direct(site.name))
       ELSE UNCHANGED <<loggerVars, fsVars, heap>>
  /\ Returns(logRequestReports(requestId, site.request, site.chatRequest))
  /\ hist' = Requested(requestId)
  /\ UNCHANGED <<envVars, apiLogger, genCount>>
  /\ Room

Remove(m, id) == [i \in DOMAIN m \ {id} |-> m[i]]

\* logResponse lines 234-318 for an enabled logger, no pending request.
LogResponseUnmatchedWrites(chatResponse, responsesResponse) ==
  /\ CanFormat(NullV, NullV, chatResponse, responsesResponse)
  /\ CanWrite

\* logResponse, a pending request found.
LogResponseMatchedWrites(requestId, chatResponse, responsesResponse) ==
  /\ CanFormat(Deref(pendingRequests[requestId].request),
               Deref(pendingRequests[requestId].chatRequest),
               chatResponse, responsesResponse)
  /\ CanWrite

\* logResponse lines 241-266: no pending request for the identifier.
logResponseUnmatched(requestId, chatResponse, responsesResponse, debugInfo, flagged) ==
  /\ IF LogResponseUnmatchedWrites(chatResponse, responsesResponse)
       THEN /\ log' = Append(log,
                 Entry("logResponse", debugInfo, requestId, NoId, FALSE, flagged,
                       ResponseSections(chatResponse, responsesResponse)))
            /\ fileExists' = TRUE
       ELSE UNCHANGED <<log, fileExists>>
  /\ UNCHANGED <<loggerVars, dirExists, heap>>

\* logResponse lines 269-314: the completed entry, then the delete, which a
\* throw above it skips.
logResponseMatched(requestId, chatResponse, responsesResponse, debugInfo) ==
  LET pendingRequest == pendingRequests[requestId] IN
  /\ heap' = HeapAfterSanitize({pendingRequest.request, pendingRequest.chatRequest})
  /\ IF LogResponseMatchedWrites(requestId, chatResponse, responsesResponse)
       THEN /\ log' = Append(log,
                 Entry("logResponse", debugInfo, requestId, pendingRequest.debugInfo,
                       disableResponseStorage, FALSE,
                       RequestSections(Deref(pendingRequest.request),
                                       Deref(pendingRequest.chatRequest))
                       \o ResponseSections(chatResponse, responsesResponse)))
            /\ fileExists' = TRUE
            /\ pendingRequests' = Remove(pendingRequests, requestId)
       ELSE UNCHANGED <<log, fileExists, pendingRequests>>
  /\ UNCHANGED <<enabled, disableResponseStorage, requestLogged, dirExists>>

\* logResponse were it to leave out the "!!! NO MATCHING REQUEST FOUND !!!"
\* line.
logResponseUnflagged(requestId, chatResponse, responsesResponse, debugInfo) ==
  IF requestId \notin DOMAIN pendingRequests
    THEN logResponseUnmatched(requestId, chatResponse, responsesResponse, debugInfo, FALSE)
    ELSE logResponseMatched(requestId, chatResponse, responsesResponse, debugInfo)

\* logResponse lines 234-318, below the `if (!this.enabled)` return.
logResponseBody(requestId, chatResponse, responsesResponse, debugInfo) ==
  IF requestId \notin DOMAIN pendingRequests
    THEN logResponseUnmatched(requestId, chatResponse, responsesResponse, debugInfo, TRUE)
    ELSE logResponseMatched(requestId, chatResponse, responsesResponse, debugInfo)

logResponseReports(requestId, chatResponse, responsesResponse) ==
  /\ enabled
  /\ IF requestId \in DOMAIN pendingRequests
       THEN ~LogResponseMatchedWrites(requestId, chatResponse, responsesResponse)
       ELSE ~LogResponseUnmatchedWrites(chatResponse, responsesResponse)

\* The site a response comes from: the translated provider's when a chat
\* response is passed.
ResponseSite(chatResponse) == IF Truthy(chatResponse) THEN "siteB" ELSE "siteA"

LogResponse(requestId, chatResponse, responsesResponse) ==
  /\ rev = "clean" /\ apiLogger
  /\ IF enabled
       THEN logResponseBody(requestId, chatResponse, responsesResponse,
                            Direct(ResponseSite(chatResponse)))
       ELSE UNCHANGED <<loggerVars, fsVars, heap>>
  /\ Returns(logResponseReports(requestId, chatResponse, responsesResponse))
  /\ hist' = Responded(requestId)
  /\ UNCHANGED <<envVars, apiLogger, genCount>>
  /\ Room

\* The shapes the specification lists as placeholders: the empty object, a
\* value that is no record, an object whose only field is controller.
EnumeratedPlaceholder(responsesResponse) ==
  \/ responsesResponse.kind # "obj"
  \/ DOMAIN responsesResponse.f = {}
  \/ DOMAIN responsesResponse.f = {"controller"}

\* The test logApiCycle (lines 339-341) and handlePossibleStreamController
\* (api-logger.ts lines 360-362) make: a stream controller, not a response.
IsStreamController(responsesResponse) ==
  /\ Truthy(responsesResponse)
  /\ IsObject(responsesResponse)
  /\ Get(responsesResponse, "controller") # UndefV

\* generateRequestId / generateId: a fresh identifier.
\* generateRequestId were it to hand out an identifier a caller holds.
generateRequestIdOfCaller == "r1"

generateRequestId == GenIds[genCount + 1]

LogApiCycleWrites(site, chatResponse, responsesResponse) ==
  /\ CanFormat(Deref(site.request), Deref(site.chatRequest), chatResponse, responsesResponse)
  /\ CanWrite

LogApiCycle(site, chatResponse, responsesResponse) ==
  /\ rev = "clean" /\ apiLogger
  /\ IF ~enabled THEN
       /\ UNCHANGED <<loggerVars, fsVars, heap, genCount>>
       /\ Returns(FALSE)
     ELSE IF IsStreamController(responsesResponse) THEN
       /\ genCount < Len(GenIds)
       /\ genCount' = genCount + 1
       /\ logRequestBody(generateRequestId, site.request, site.chatRequest,
                         Via(site.name, "logApiCycle -> logRequest"))
       /\ Returns(logRequestReports(generateRequestId, site.request, site.chatRequest))
     ELSE
       /\ heap' = HeapAfterSanitize({site.request, site.chatRequest})
       /\ IF LogApiCycleWrites(site, chatResponse, responsesResponse)
            THEN /\ log' = Append(log,
                      Entry("logApiCycle", Direct(site.name), NoId, NoId,
                            disableResponseStorage, FALSE,
                            RequestSections(Deref(site.request), Deref(site.chatRequest))
                            \o ResponseSections(chatResponse, responsesResponse)))
                 /\ fileExists' = TRUE
            ELSE UNCHANGED <<log, fileExists>>
       /\ Returns(~LogApiCycleWrites(site, chatResponse, responsesResponse))
       /\ UNCHANGED <<loggerVars, dirExists, genCount>>
  /\ UNCHANGED <<envVars, apiLogger, histVars>>
  /\ Room

\* setDisableResponseStorage were it not to look at this.enabled.
setDisableResponseStorageUnchecked(disabled) ==
  /\ apiLogger
  /\ IF disableResponseStorage # disabled THEN
       /\ disableResponseStorage' = disabled
       /\ IF disabled /\ CanWrite
            THEN log' = Append(log, MarkerEntry) /\ fileExists' = TRUE
            ELSE UNCHANGED <<log, fileExists>>
       /\ Returns(disabled /\ ~CanWrite)
       /\ UNCHANGED <<enabled, pendingRequests, requestLogged, dirExists>>
     ELSE
       /\ UNCHANGED <<loggerVars, fsVars>>
       /\ Returns(FALSE)
  /\ UNCHANGED <<envVars, apiLogger, heap, genCount, histVars>>
  /\ Room

\* setDisableResponseStorage without its `this.disableResponseStorage !==
\* disabled` test: every call with true writes the marker.
setDisableResponseStorageEveryCall(disabled) ==
  /\ apiLogger
  /\ IF enabled THEN
       /\ disableResponseStorage' = disabled
       /\ IF disabled /\ CanWrite
            THEN log' = Append(log, MarkerEntry) /\ fileExists' = TRUE
            ELSE UNCHANGED <<log, fileExists>>
       /\ Returns(disabled /\ ~CanWrite)
       /\ UNCHANGED <<enabled, pendingRequests, requestLogged, dirExists>>
     ELSE
       /\ UNCHANGED <<loggerVars, fsVars>>
       /\ Returns(FALSE)
  /\ UNCHANGED <<envVars, apiLogger, heap, genCount, histVars>>
  /\ Room

\* setDisableResponseStorage were it to write the marker with
\* fs.writeFileSync instead of fs.appendFileSync.
setDisableResponseStorageRewriting(disabled) ==
  /\ apiLogger
  /\ IF disableResponseStorage # disabled /\ enabled THEN
       /\ disableResponseStorage' = disabled
       /\ IF disabled /\ CanWrite
            THEN log' = <<MarkerEntry>> /\ fileExists' = TRUE
            ELSE UNCHANGED <<log, fileExists>>
       /\ Returns(disabled /\ ~CanWrite)
       /\ UNCHANGED <<enabled, pendingRequests, requestLogged, dirExists>>
     ELSE
       /\ UNCHANGED <<loggerVars, fsVars>>
       /\ Returns(FALSE)
  /\ UNCHANGED <<envVars, apiLogger, heap, genCount, histVars>>
  /\ Room

\* setDisableResponseStorage, both revisions: the clean one appends with
\* fs.appendFileSync inside its try, the other through appendToLog.
SetDisableResponseStorage(disabled) ==
  /\ apiLogger
  /\ IF disableResponseStorage # disabled /\ enabled THEN
       /\ disableResponseStorage' = disabled
       /\ IF disabled /\ CanWrite
            THEN log' = Append(log, MarkerEntry) /\ fileExists' = TRUE
            ELSE UNCHANGED <<log, fileExists>>
       /\ Returns(disabled /\ ~CanWrite)
       /\ UNCHANGED <<enabled, pendingRequests, requestLogged, dirExists>>
     ELSE
       /\ UNCHANGED <<loggerVars, fsVars>>
       /\ Returns(FALSE)
  /\ UNCHANGED <<envVars, apiLogger, heap, genCount, histVars>>
  /\ Room

(***************************************************************************)
(* The revision of src/codex-cli/src/utils/api-logger.ts, lines 1-382.     *)
(***************************************************************************)
\* appendToLog (lines 135-144) called with an entry: the write error is
\* caught and reported inside, the caller goes on.
appendToLog(entry) ==
  IF enabled /\ CanWrite
    THEN log' = Append(log, entry) /\ fileExists' = TRUE
    ELSE UNCHANGED <<log, fileExists>>

\* this.pendingRequests.set(requestId, record)
Put(m, id, record) ==
  [i \in DOMAIN m \cup {id} |-> IF i = id THEN record ELSE m[i]]

\* logResponsesRequest below its `if (!this.enabled) return`.
\* logResponsesRequest without the pendingRequests.set of lines 161-165.
logResponsesRequestUnstored(requestId, responsesRequest, caller) ==
  /\ heap' = HeapAfterSanitize({responsesRequest})
  /\ IF Serializable(sanitizeData(Deref(responsesRequest)))
       THEN appendToLog(
              Entry("logResponsesRequest", caller, requestId, NoId, FALSE, FALSE,
                    <<Section("RESPONSES API REQUEST",
                              Stringify(sanitizeData(Deref(responsesRequest)))),
                      Section("RESPONSES API RESPONSE", PendingNote)>>))
       ELSE UNCHANGED <<log, fileExists>>
  /\ UNCHANGED <<enabled, disableResponseStorage, requestLogged, dirExists,
                 pendingRequests>>

logResponsesRequestBody(requestId, responsesRequest, caller) ==
  /\ heap' = HeapAfterSanitize({responsesRequest})
  /\ pendingRequests' =
       Put(pendingRequests, requestId,
           [caller |-> caller, responsesRequest |-> responsesRequest,
            chatRequest |-> UndefRef])
  /\ IF Serializable(sanitizeData(Deref(responsesRequest)))
       THEN appendToLog(
              Entry("logResponsesRequest", caller, requestId, NoId, FALSE, FALSE,
                    <<Section("RESPONSES API REQUEST",
                              Stringify(sanitizeData(Deref(responsesRequest)))),
                      Section("RESPONSES API RESPONSE", PendingNote)>>))
       ELSE UNCHANGED <<log, fileExists>>
  /\ UNCHANGED <<enabled, disableResponseStorage, requestLogged, dirExists>>

logResponsesRequestReports(responsesRequest) ==
  /\ enabled
  /\ ~(Serializable(sanitizeData(Deref(responsesRequest))) /\ CanWrite)

LogResponsesRequest(requestId, site) ==
  /\ rev = "corr" /\ apiLogger
  /\ IF enabled
       THEN logResponsesRequestBody(requestId, site.request, Direct(site.name))
       ELSE UNCHANGED <<loggerVars, fsVars, heap>>
  /\ Returns(logResponsesRequestReports(site.request))
  /\ hist' = Requested(requestId)
  /\ UNCHANGED <<envVars, apiLogger, genCount>>
  /\ Room

\* logChatCompletionsRequest (lines 239-277).
LogChatCompletionsRequest(requestId, site) ==
  LET canFormat == /\ Serializable(sanitizeData(Deref(site.request)))
                   /\ Serializable(sanitizeData(Deref(site.chatRequest)))
  IN
  /\ rev = "corr" /\ apiLogger
  /\ IF enabled THEN
       /\ heap' = HeapAfterSanitize({site.request, site.chatRequest})
       /\ pendingRequests' =
            Put(pendingRequests, requestId,
                [caller |-> Direct(site.name), responsesRequest |-> site.request,
                 chatRequest |-> site.chatRequest])
       /\ IF canFormat
            THEN appendToLog(
                   Entry("logChatCompletionsRequest", Direct(site.name), requestId,
                         NoId, FALSE, FALSE,
                         <<Section("RESPONSES API REQUEST (ORIGINAL)",
                                   Stringify(sanitizeData(Deref(site.request)))),
                           Section("CHAT COMPLETIONS API REQUEST (TRANSLATED)",
                                   Stringify(sanitizeData(Deref(site.chatRequest)))),
                           Section("CHAT COMPLETIONS/RESPONSES API RESPONSE",
                                   PendingNote)>>))
            ELSE UNCHANGED <<log, fileExists>>
       /\ UNCHANGED <<enabled, disableResponseStorage, requestLogged, dirExists>>
     ELSE UNCHANGED <<loggerVars, fsVars, heap>>
  /\ Returns(enabled /\ ~(canFormat /\ CanWrite))
  /\ hist' = Requested(requestId)
  /\ UNCHANGED <<envVars, apiLogger, genCount>>
  /\ Room

\* The identifiers handlePossibleStreamController has returned to callers.
Issued == IF rev = "corr" THEN {GenIds[i] : i \in 1..genCount} ELSE {}

\* logResponsesResponse (lines 190-229).  appendToLog swallows a write
\* error, so the delete on line 224 runs whether or not the entry landed.
LogResponsesResponse(requestId, responsesResponse, caller) ==
  LET found == requestId \in DOMAIN pendingRequests
      pendingRequest == pendingRequests[requestId]
      canFormat ==
        /\ Serializable(sanitizeData(responsesResponse))
        /\ found => Serializable(sanitizeData(Deref(pendingRequest.responsesRequest)))
  IN
  /\ rev = "corr" /\ apiLogger
  /\ IF ~enabled THEN
       UNCHANGED <<loggerVars, fsVars, heap>>
     ELSE IF ~found THEN
       /\ IF canFormat
            THEN appendToLog(
                   Entry("logResponsesResponse", caller, requestId, NoId, FALSE, TRUE,
                         <<Section("RESPONSES API RESPONSE",
                                   Stringify(sanitizeData(responsesResponse)))>>))
            ELSE UNCHANGED <<log, fileExists>>
       /\ UNCHANGED <<loggerVars, dirExists, heap>>
     ELSE
       /\ heap' = HeapAfterSanitize({pendingRequest.responsesRequest})
       /\ IF canFormat
            THEN /\ appendToLog(
                      Entry("logResponsesResponse", caller, requestId,
                            pendingRequest.caller, FALSE, FALSE,
                            <<Section("RESPONSES API REQUEST",
                                Stringify(sanitizeData(Deref(pendingRequest.responsesRequest)))),
                              Section("RESPONSES API RESPONSE",
                                Stringify(sanitizeData(responsesResponse)))>>))
                 /\ pendingRequests' = Remove(pendingRequests, requestId)
            ELSE UNCHANGED <<log, fileExists, pendingRequests>>
       /\ UNCHANGED <<enabled, disableResponseStorage, requestLogged, dirExists>>
  /\ Returns(enabled /\ ~(canFormat /\ CanWrite))
  /\ hist' = Responded(requestId)
  /\ UNCHANGED <<envVars, apiLogger, genCount>>
  /\ Room

\* logChatCompletionsResponse (lines 287-342).
LogChatCompletionsResponse(requestId, chatResponse, responsesResponse, caller) ==
  LET found == requestId \in DOMAIN pendingRequests
      pendingRequest == pendingRequests[requestId]
      canFormat ==
        /\ Serializable(sanitizeData(chatResponse))
        /\ Serializable(sanitizeData(responsesResponse))
        /\ found => /\ Serializable(sanitizeData(Deref(pendingRequest.responsesRequest)))
                    /\ Serializable(sanitizeData(Deref(pendingRequest.chatRequest)))
      responseSections ==
        <<Section("CHAT COMPLETIONS API RESPONSE", Stringify(sanitizeData(chatResponse))),
          Section("RESPONSES API RESPONSE (TRANSLATED)",
                  Stringify(sanitizeData(responsesResponse)))>>
  IN
  /\ rev = "corr" /\ apiLogger
  /\ IF ~enabled THEN
       UNCHANGED <<loggerVars, fsVars, heap>>
     ELSE IF ~found THEN
       /\ IF canFormat
            THEN appendToLog(
                   Entry("logChatCompletionsResponse", caller, requestId, NoId,
                         FALSE, TRUE, responseSections))
            ELSE UNCHANGED <<log, fileExists>>
       /\ UNCHANGED <<loggerVars, dirExists, heap>>
     ELSE
       /\ heap' = HeapAfterSanitize({pendingRequest.responsesRequest,
                                     pendingRequest.chatRequest})
       /\ IF canFormat
            THEN /\ appendToLog(
                      Entry("logChatCompletionsResponse", caller, requestId,
                            pendingRequest.caller, FALSE, FALSE,
                            <<Section("RESPONSES API REQUEST (ORIGINAL)",
                                Stringify(sanitizeData(Deref(pendingRequest.responsesRequest)))),
                              Section("CHAT COMPLETIONS API REQUEST (TRANSLATED)",
                                Stringify(sanitizeData(Deref(pendingRequest.chatRequest))))>>
                            \o responseSections))
                 /\ pendingRequests' = Remove(pendingRequests, requestId)
            ELSE UNCHANGED <<log, fileExists, pendingRequests>>
       /\ UNCHANGED <<enabled, disableResponseStorage, requestLogged, dirExists>>
  /\ Returns(enabled /\ ~(canFormat /\ CanWrite))
  /\ hist' = Responded(requestId)
  /\ UNCHANGED <<envVars, apiLogger, genCount>>
  /\ Room

\* handlePossibleStreamController (lines 352-370).  It returns the generated
\* identifier when it took the response for a stream controller (genCount
\* moves on), the empty string otherwise.
HandlePossibleStreamController(site, responsesResponse) ==
  /\ rev = "corr" /\ apiLogger
  /\ IF ~enabled THEN
       /\ UNCHANGED <<loggerVars, fsVars, heap, genCount>>
       /\ returned' = ""
       /\ Returns(FALSE)
     ELSE IF IsStreamController(responsesResponse) THEN
       /\ genCount < Len(GenIds)
       /\ genCount' = genCount + 1
       /\ logResponsesRequestBody(generateRequestId, site.request,
                                  Via(site.name, "stream controller detected"))
       /\ returned' = generateRequestId
       /\ Returns(logResponsesRequestReports(site.request))
     ELSE
       /\ UNCHANGED <<loggerVars, fsVars, heap, genCount>>
       /\ returned' = ""
       /\ Returns(FALSE)
  /\ UNCHANGED <<rev, envLogApiRaw, fsOk, clone, splitVars, apiLogger, histVars>>
  /\ Room

(***************************************************************************)
(* The revision of src/codex-cli/src/utils/api-logger.ts, lines 384-519:   *)
(* one log file per API, no pending store.                                 *)
(***************************************************************************)
\* The constructor (lines 446-459): the directory, the two file names, the
\* enabled flag; it writes nothing.
ConstructorSplit ==
  /\ dirExists' = TRUE
  /\ enabled' = envLogApiRaw
  /\ UNCHANGED <<disableResponseStorage, pendingRequests, requestLogged,
                 fileExists, log>>

GetApiLoggerSplit ==
  /\ rev = "split"
  /\ IF apiLogger THEN
       /\ UNCHANGED <<apiLogger, loggerVars, fsVars>>
       /\ Returns(FALSE)
     ELSE IF ConstructorThrows THEN
       /\ UNCHANGED <<apiLogger, loggerVars, fsVars>>
       /\ Throws
     ELSE
       /\ ConstructorSplit
       /\ apiLogger' = TRUE
       /\ Returns(FALSE)
  /\ UNCHANGED <<envVars, heap, genCount, histVars>>

\* sanitizeData of this revision (lines 407-439) has no catch around its
\* JSON.stringify: it throws on a value that cannot be serialized.
sanitizeDataThrows(data) == Truthy(data) /\ ~Serializable(data)
sanitizeDataStrict(data) ==
  IF ~Truthy(data) THEN data ELSE Redact(JsonClone(data))

\* The entry both operations format: REQUEST and RESPONSE.
ApiEntry(op, request, response) ==
  Entry(op, NoId, NoId, NoId, FALSE, FALSE,
        <<Section("REQUEST", Stringify(sanitizeDataStrict(request))),
          Section("RESPONSE", Stringify(sanitizeDataStrict(response)))>>)

\* The try block of either operation runs to its end.
ApiWrites(request, response) ==
  /\ ~sanitizeDataThrows(request) /\ ~sanitizeDataThrows(response)
  /\ CanWrite

\* The model follows each of the two files up to MaxLog entries.
RoomSplit == Len(responsesLog') <= MaxLog /\ Len(chatCompLog') <= MaxLog

\* logChatCompletionsApi were it to append to the responses log file.
logChatCompletionsApiSameFile(request, response) ==
  /\ rev = "split" /\ apiLogger
  /\ IF enabled /\ ApiWrites(request, response)
       THEN responsesLog' =
              Append(responsesLog, ApiEntry("logChatCompletionsApi", request, response))
       ELSE UNCHANGED responsesLog
  /\ UNCHANGED chatCompLog
  /\ Returns(enabled /\ ~ApiWrites(request, response))
  /\ UNCHANGED <<rev, envLogApiRaw, fsOk, clone, returned, apiLogger,
                 loggerVars, fsVars, heap, genCount, histVars>>
  /\ RoomSplit

\* logResponsesApi (lines 468-486).
LogResponsesApi(request, response) ==
  /\ rev = "split" /\ apiLogger
  /\ IF enabled /\ ApiWrites(request, response)
       THEN responsesLog' =
              Append(responsesLog, ApiEntry("logResponsesApi", request, response))
       ELSE UNCHANGED responsesLog
  /\ UNCHANGED chatCompLog
  /\ Returns(enabled /\ ~ApiWrites(request, response))
  /\ UNCHANGED <<rev, envLogApiRaw, fsOk, clone, returned, apiLogger,
                 loggerVars, fsVars, heap, genCount, histVars>>
  /\ RoomSplit

\* logChatCompletionsApi (lines 489-507).
LogChatCompletionsApi(request, response) ==
  /\ rev = "split" /\ apiLogger
  /\ IF enabled /\ ApiWrites(request, response)
       THEN chatCompLog' =
              Append(chatCompLog, ApiEntry("logChatCompletionsApi", request, response))
       ELSE UNCHANGED chatCompLog
  /\ UNCHANGED responsesLog
  /\ Returns(enabled /\ ~ApiWrites(request, response))
  /\ UNCHANGED <<rev, envLogApiRaw, fsOk, clone, returned, apiLogger,
                 loggerVars, fsVars, heap, genCount, histVars>>
  /\ RoomSplit

(***************************************************************************)
(* The environment: the file system.                                       *)
(***************************************************************************)
\* The destination becomes unavailable, or available again.
FsToggle ==
  /\ fsOk' = ~fsOk
  /\ UNCHANGED <<rev, envLogApiRaw, apiLogger, loggerVars, fsVars, heap,
                 genCount, threw, reported, histVars, clone, splitVars,
                 returned>>

Environment == FsToggle

(***************************************************************************)
(* The process starts with no logger; the instance fields below are those  *)
(* the constructor will set, read by nothing before it ran.                *)
(***************************************************************************)
InitProcess ==
  /\ envLogApiRaw \in BOOLEAN
  /\ apiLogger = FALSE
  /\ enabled = FALSE
  /\ disableResponseStorage = FALSE
  /\ pendingRequests = <<>>
  /\ requestLogged = {}
  /\ dirExists \in BOOLEAN
  /\ fileExists = FALSE
  /\ log = <<>>
  /\ fsOk = TRUE
  /\ genCount = 0
  /\ threw = FALSE
  /\ reported = FALSE
  /\ hist = [i \in CallerIds |-> "none"]
  /\ clone = <<>>
  /\ responsesLog = <<>>
  /\ chatCompLog = <<>>
  /\ returned = ""

InitCommon == InitProcess /\ heap = InitHeap

InitClean == rev = "clean" /\ InitCommon
InitSplit == rev = "split" /\ InitCommon
InitCorr == rev = "corr" /\ InitCommon

\* The request / response operations of the clean revision.
NextClean ==
  \/ GetApiLogger
  \/ \E id \in CallerIds, site \in Sites : LogRequest(id, site)
  \/ \E id \in CallerIds, c \in ChatResponses, r \in StreamedResponses :
       LogResponse(id, c, r)
  \/ \E site \in CycleSites, r \in CycleResponses :
       LogApiCycle(site, SiteChatResponse(site), r)
  \/ Environment

\* The request / response operations of the api-logger.ts revision.
NextCorr ==
  \/ GetApiLogger
  \/ \E id \in CallerIds, site \in NativeSites : LogResponsesRequest(id, site)
  \/ \E id \in CallerIds, site \in TranslatedSites : LogChatCompletionsRequest(id, site)
  \/ \E id \in CallerIds \cup Issued :
       LogResponsesResponse(id, RealResp, Direct("siteA"))
  \/ \E id \in CallerIds :
       LogChatCompletionsResponse(id, ChatResp, RealResp, Direct("siteB"))
  \/ \E site \in CycleSites, r \in CycleResponses :
       HandlePossibleStreamController(site, r)
  \/ Environment

\* The --disable-response-storage flag, either revision.
NextStorage == \E d \in BOOLEAN : SetDisableResponseStorage(d)

\* Whole cycles only, with every kind of response value.
NextCycle ==
  \/ GetApiLogger
  \/ \E site \in WholeCycleSites, r \in Responses :
       LogApiCycle(site, SiteChatResponse(site), r)
  \/ \E site \in CycleSites, r \in Responses : HandlePossibleStreamController(site, r)
  \/ Environment

\* The caller goes on using a request object it has passed to logRequest:
\* it assigns a new model to it.  The pending record holds the object
\* itself (pendingRequests.set stores `request` and `chatRequest` as given).
Reassigned(v) ==
  [v EXCEPT !.f = [k \in DOMAIN v.f |->
     IF k = "model" THEN StrV("z") ELSE v.f[k]]]

CallerMutates(ref) ==
  /\ heap[ref] # Reassigned(heap[ref])
  /\ heap' = [heap EXCEPT ![ref] = Reassigned(heap[ref])]
  /\ UNCHANGED <<envVars, apiLogger, loggerVars, fsVars, genCount, threw,
                 reported, histVars>>

\* Requests, responses, and callers that reuse their request objects.
NextOwnership ==
  \/ GetApiLogger
  \/ \E id \in CallerIds, site \in WholeCycleSites : LogRequest(id, site)
  \/ \E id \in CallerIds : LogResponse(id, NullV, RealResp)
  \/ \E site \in WholeCycleSites : CallerMutates(site.request)
  \/ Environment

\* Whole cycles of the native sites, one of them with a request that cannot
\* be serialized, with any kind of response, next to callers that log
\* requests and responses under the identifiers they hold.
NextDeferredCycle ==
  \/ GetApiLogger
  \/ \E site \in NativeSites, r \in Responses : LogApiCycle(site, NullV, r)
  \/ \E id \in CallerIds : LogRequest(id, SiteA)
  \/ \E id \in CallerIds, r \in StreamedResponses : LogResponse(id, NullV, r)
  \/ Environment

\* The callers of handlePossibleStreamController: native sites, one of them
\* with a request that cannot be serialized, holding any kind of response;
\* the response is logged under the returned identifier once the stream ends.
NextDefer ==
  \/ GetApiLogger
  \/ \E site \in NativeSites, r \in Responses :
       HandlePossibleStreamController(site, r)
  \/ \E id \in Issued : LogResponsesResponse(id, RealResp, Direct("siteA"))
  \/ Environment

\* The requests and responses handed to the api-logger.ts revision of lines
\* 384-519 (by value).
SplitRequests == {ReqA, ChatReq, ReqCyc}
SplitResponses == {NullV, RealResp}

NextSplit ==
  \/ GetApiLoggerSplit
  \/ \E request \in SplitRequests, response \in SplitResponses :
       LogResponsesApi(request, response)
  \/ \E request \in SplitRequests, response \in SplitResponses :
       LogChatCompletionsApi(request, response)
  \/ Environment

\* A caller applies sanitizeData to the object o1 it holds, and then to the
\* value it got back.
SanitizeData ==
  /\ Len(clone) = 0
  /\ clone' = <<sanitizeData(heap["o1"])>>
  /\ heap' = HeapAfterSanitize({"o1"})
  /\ UNCHANGED <<rev, envLogApiRaw, fsOk, apiLogger, loggerVars, fsVars,
                 genCount, threw, reported, histVars, splitVars, returned>>

SanitizeClone ==
  /\ Len(clone) = 1
  /\ clone' = Append(clone, sanitizeData(clone[1]))
  /\ UNCHANGED <<rev, envLogApiRaw, fsOk, apiLogger, loggerVars, fsVars, heap,
                 genCount, threw, reported, histVars, splitVars, returned>>

\* siteA's request object is any of the payloads.
InitSanitize ==
  /\ rev = "clean"
  /\ InitProcess
  /\ \E data \in Payloads : heap = [InitHeap EXCEPT !["o1"] = data]

\* sanitizeData called directly, and by logApiCycle on its way to the log.
NextSanitize ==
  \/ SanitizeData
  \/ SanitizeClone
  \/ GetApiLogger
  \/ LogApiCycle(SiteA, NullV, RealResp)

\* The operations that format entries in the clean revision, with
\* serializable payloads of a native and a translated site and every
\* combination of translated request and translated response; NextFormat
\* adds the --disable-response-storage flag.
NextEntries ==
  \/ GetApiLogger
  \/ \E id \in CallerIds, site \in WholeCycleSites : LogRequest(id, site)
  \/ \E id \in CallerIds, c \in ChatResponses : LogResponse(id, c, RealResp)
  \/ \E site \in WholeCycleSites, c \in ChatResponses : LogApiCycle(site, c, RealResp)
  \/ Environment

NextFormat == NextEntries \/ NextStorage

\* SpecClean and SpecCorr: the request / response operations of one
\* revision.  SpecBoth: those of either revision.  SpecCycle: whole cycles
\* with every kind of response.  SpecEntries: the entries of the clean
\* revision.  SpecFormat: the entries and the storage flag.  SpecSanitize:
\* sanitizeData over the payloads.  SpecSplit: the revision with one log
\* file per API.  SpecOwnership: callers that reuse their request objects.
\* SpecDefer: the defer path of handlePossibleStreamController.
\* SpecDeferredCycle: the defer path of logApiCycle.  Spec: every operation of the clean and corr revisions.
SpecClean == InitClean /\ [][NextClean]_vars
SpecCorr == InitCorr /\ [][NextCorr]_vars
SpecCycle == (InitClean \/ InitCorr) /\ [][NextCycle]_vars
SpecDefer == InitCorr /\ [][NextDefer]_vars
SpecDeferredCycle == InitClean /\ [][NextDeferredCycle]_vars
Init == InitClean \/ InitCorr
SpecBoth == Init /\ [][NextClean \/ NextCorr]_vars
SpecEntries == InitClean /\ [][NextEntries]_vars
SpecFormat == Init /\ [][NextFormat]_vars
SpecSanitize == InitSanitize /\ [][NextSanitize]_vars
SpecSplit == InitSplit /\ [][NextSplit]_vars
SpecOwnership == InitClean /\ [][NextOwnership]_vars
Next == NextClean \/ NextCorr \/ NextStorage
Spec == Init /\ [][Next]_vars

(***************************************************************************)
(* Reading the log file: what the entries are, by what they hold.          *)
(***************************************************************************)
RequestLabels ==
  {"RESPONSES FORMAT REQUEST", "CHAT COMPLETIONS FORMAT REQUEST (TRANSLATED)",
   "RESPONSES API REQUEST", "RESPONSES API REQUEST (ORIGINAL)",
   "CHAT COMPLETIONS API REQUEST (TRANSLATED)"}
ResponseLabels ==
  {"RESPONSES FORMAT RESPONSE", "RESPONSES FORMAT RESPONSE (BACK-TRANSLATED)",
   "CHAT COMPLETIONS FORMAT RESPONSE", "RESPONSES API RESPONSE",
   "RESPONSES API RESPONSE (TRANSLATED)", "CHAT COMPLETIONS API RESPONSE",
   "CHAT COMPLETIONS/RESPONSES API RESPONSE"}

Last(l) == l[Len(l)]
HasRequestSection(e) ==
  \E i \in 1..Len(e.sections) : e.sections[i].label \in RequestLabels
HasResponseSection(e) ==
  \E i \in 1..Len(e.sections) :
    e.sections[i].label \in ResponseLabels /\ e.sections[i].body # PendingNote
\* An interim entry: the request, and the note that the response follows.
InterimEntry(e) ==
  /\ HasRequestSection(e)
  /\ \E i \in 1..Len(e.sections) :
       e.sections[i].label \in ResponseLabels /\ e.sections[i].body = PendingNote
\* A completed entry: the request and the response it was matched with.
CompletedEntry(e) == ~e.nomatch /\ HasRequestSection(e) /\ HasResponseSection(e)
\* An entry for a response no request was found for.
NoMatchEntry(e) ==
  /\ e.nomatch
  /\ Len(e.sections) > 0
  /\ \A i \in 1..Len(e.sections) :
       e.sections[i].label \in ResponseLabels /\ e.sections[i].body # PendingNote

InterimsFor(l, id) == {i \in 1..Len(l) : InterimEntry(l[i]) /\ l[i].id = id}
CompletedFor(l, id) == {i \in 1..Len(l) : CompletedEntry(l[i]) /\ l[i].id = id}
\* This step appended exactly one entry.
AppendedOne == Len(log') = Len(log) + 1 /\ SubSeq(log', 1, Len(log)) = log

\* The payloads of a site can be serialized.
SitePayloadsSerializable(site) ==
  /\ Serializable(Deref(site.request))
  /\ Serializable(Deref(site.chatRequest))

(***************************************************************************)
(* Duplicate protection and correlation, clean revision (SpecClean).       *)
(***************************************************************************)
\* C1, as stated: once logRequest(id, ...) was called twice with logging
\* enabled and no logResponse(id, ...) before, the log holds exactly one
\* interim entry for id.
C1_TwoRequestsOneInterim ==
  \A id \in CallerIds :
    (enabled /\ hist[id] = "req2") => Cardinality(InterimsFor(log, id)) = 1

\* C1, amended: of two logRequest(id, ...) calls before any logResponse(id,
\* ...) the second appends nothing and the first appends exactly one interim
\* entry when its payloads serialize and the write succeeds, none otherwise;
\* so the log holds at most one interim entry for id, never two.
C1_AtMostOneInterim ==
  [][\A id \in CallerIds, site \in Sites :
       (LogRequest(id, site) /\ enabled) =>
         /\ hist[id] = "none" =>
              Cardinality(InterimsFor(log', id)) =
                IF SitePayloadsSerializable(site) /\ CanWrite THEN 1 ELSE 0
         /\ hist[id] = "req1" =>
              /\ log' = log
              /\ Cardinality(InterimsFor(log, id)) <= 1]_vars

\* Two requests were logged for r1 and the log holds its one interim entry.
C1_Witness ==
  /\ enabled
  /\ hist["r1"] = "req2"
  /\ Cardinality(InterimsFor(log, "r1")) = 1

\* The record logRequest stores for a call from site.
RecordOf(site) ==
  [request |-> site.request, chatRequest |-> site.chatRequest,
   debugInfo |-> Direct(site.name)]

\* C2: of the logRequest calls made with one identifier, the first inserts
\* its record (request, translated request, origin label) in the pending
\* store; every later one leaves the store as it is; and no step of the
\* logger replaces a record that is in the store.
C2_FirstWriterWins ==
  [][/\ \A id \in CallerIds, site \in Sites :
          (LogRequest(id, site) /\ enabled) =>
            /\ hist[id] = "none" =>
                 /\ id \notin DOMAIN pendingRequests
                 /\ pendingRequests' = Put(pendingRequests, id, RecordOf(site))
            /\ hist[id] \in {"req1", "req2"} => pendingRequests' = pendingRequests
     /\ \A id \in DOMAIN pendingRequests \cap DOMAIN pendingRequests' :
          pendingRequests'[id] = pendingRequests[id]]_vars

\* Two requests were logged for r1 from different sites; the record in the
\* store is one of them.
C2_Witness ==
  /\ enabled
  /\ hist["r1"] = "req2"
  /\ "r1" \in DOMAIN pendingRequests
  /\ pendingRequests["r1"] = RecordOf(SiteB)

\* C3 (api-logger.ts revision): logResponsesRequest(id, ...) and
\* logChatCompletionsRequest(id, ...) called for an id that is pending leave
\* the stored record as it is and append no entry.
C3_DuplicateRequestIsNoOp ==
  [][\A id \in CallerIds :
       ( /\ enabled
         /\ id \in DOMAIN pendingRequests
         /\ \/ \E site \in NativeSites : LogResponsesRequest(id, site)
            \/ \E site \in TranslatedSites : LogChatCompletionsRequest(id, site) )
       => (pendingRequests' = pendingRequests /\ log' = log)]_vars

\* C4: with logging enabled and a destination that takes the write,
\* logResponse(id, ...) for an id logRequest(id, ...) left pending appends
\* exactly one entry, a completed one for id holding the request and the
\* response sections, and id is absent from the pending store afterwards.
C4_RequestThenResponseCompletes ==
  [][\A id \in CallerIds, c \in ChatResponses, r \in StreamedResponses :
       ( /\ LogResponse(id, c, r)
         /\ enabled
         /\ CanWrite
         /\ id \in DOMAIN pendingRequests )
       => /\ AppendedOne
          /\ CompletedEntry(Last(log'))
          /\ Last(log').id = id
          /\ Cardinality(CompletedFor(log', id)) = 1
          /\ id \notin DOMAIN pendingRequests']_vars

\* C5: a logResponse that consumes id leaves exactly one completed entry
\* for id; and once the log holds a completed entry for id, no step makes
\* id pending again or adds a second completed entry for it.
C5_ConsumedOnce ==
  [][\A id \in Ids :
       /\ (id \in DOMAIN pendingRequests /\ id \notin DOMAIN pendingRequests')
            => Cardinality(CompletedFor(log', id)) = 1
       /\ CompletedFor(log, id) # {}
            => /\ id \notin DOMAIN pendingRequests
               /\ id \notin DOMAIN pendingRequests'
               /\ CompletedFor(log', id) = CompletedFor(log, id)]_vars

\* r1 was consumed (its completed entry is in the log) and a later
\* logResponse(r1, ...) found no pending request.
C5_Witness ==
  /\ "r1" \notin DOMAIN pendingRequests
  /\ \E i, j \in 1..Len(log) :
       /\ i < j
       /\ CompletedEntry(log[i]) /\ log[i].id = "r1"
       /\ log[j].nomatch /\ log[j].id = "r1"

\* C7: a response argument that is an object whose only field is controller
\* never makes logResponse or logApiCycle append a completed entry.
C7_PlaceholderNeverCompleted ==
  [][( /\ enabled
       /\ \/ \E id \in CallerIds, c \in ChatResponses : LogResponse(id, c, CtlOnly)
          \/ \E site \in CycleSites :
               LogApiCycle(site, SiteChatResponse(site), CtlOnly) )
     => ~(Len(log') > Len(log) /\ CompletedEntry(Last(log')))]_vars

(***************************************************************************)
(* Unmatched responses, placeholders and the disabled logger.              *)
(***************************************************************************)
\* A response-logging call for id, in either revision.
ResponseCall(id) ==
  \/ \E c \in ChatResponses, r \in StreamedResponses : LogResponse(id, c, r)
  \/ LogResponsesResponse(id, RealResp, Direct("siteA"))
  \/ LogChatCompletionsResponse(id, ChatResp, RealResp, Direct("siteB"))

\* This step appended one entry for id, flagged NO MATCHING REQUEST FOUND
\* and holding response sections only.
NoMatchAppended(id) ==
  /\ AppendedOne
  /\ NoMatchEntry(Last(log'))
  /\ Last(log').id = id

CycleCall(r) ==
  \/ \E site \in WholeCycleSites : LogApiCycle(site, SiteChatResponse(site), r)
  \/ \E site \in CycleSites : HandlePossibleStreamController(site, r)

\* The defer path was taken: an identifier was generated, its request is
\* pending, and no completed entry was appended.
Deferred ==
  /\ genCount' = genCount + 1
  /\ GenIds[genCount'] \in DOMAIN pendingRequests'
  /\ ~(AppendedOne /\ CompletedEntry(Last(log')))

\* The response was taken for a real one: nothing was generated or stored.
TakenAsResponse ==
  /\ genCount' = genCount
  /\ pendingRequests' = pendingRequests
  /\ ~(AppendedOne /\ InterimEntry(Last(log')))

\* C8, as stated: logApiCycle and handlePossibleStreamController defer
\* exactly the empty object, the values that are no records and the objects
\* whose only field is controller, and take every other value for a real
\* response.
C8_EnumeratedShapesDeferred ==
  [][\A r \in Responses :
       (CycleCall(r) /\ enabled) =>
         IF EnumeratedPlaceholder(r) THEN Deferred ELSE TakenAsResponse]_vars

\* C8, amended: they defer exactly the objects that carry a controller
\* field holding a defined value, whatever else the object holds; the empty
\* object, null and the values that are no objects are taken for real
\* responses.
C8_ControllerFieldDeferred ==
  [][\A r \in Responses :
       (CycleCall(r) /\ enabled) =>
         IF r.kind = "obj" /\ "controller" \in DOMAIN r.f /\ r.f.controller # UndefV
           THEN Deferred
           ELSE TakenAsResponse]_vars

\* A stream object was deferred and the empty object was logged as the
\* response of a completed cycle.
C8_Witness ==
  /\ rev = "clean"
  /\ genCount = 1
  /\ GenIds[1] \in DOMAIN pendingRequests
  /\ \E i \in 1..Len(log) :
       /\ log[i].op = "logApiCycle"
       /\ Last(log[i].sections).body = EmptyObj

\* C9: when LOG_API_RAW is not "true" the logger is never enabled, and no
\* step writes an entry or changes the pending store, the duplicate-guard
\* set or the storage-disabled flag.
C9_DisabledIsInert ==
  [][~envLogApiRaw =>
       /\ ~enabled'
       /\ UNCHANGED <<log, fileExists, pendingRequests, requestLogged,
                      disableResponseStorage>>]_vars

\* A disabled logger after request and response calls: nothing written.
C9_Witness ==
  /\ apiLogger /\ ~envLogApiRaw
  /\ hist["r1"] = "resp"
  /\ log = <<>> /\ pendingRequests = <<>> /\ ~disableResponseStorage

\* C10: when LOG_API_RAW is not "true", neither the construction of the
\* logger nor any later operation creates the log directory or the log
\* file.
C10_DisabledCreatesNoLocation ==
  [][~envLogApiRaw => UNCHANGED <<dirExists, fileExists>>]_vars

(***************************************************************************)
(* The --disable-response-storage marker.                                  *)
(***************************************************************************)
Markers(l) == {i \in 1..Len(l) : l[i].op = "marker"}

\* C11, as stated: across any sequence of setDisableResponseStorage calls the
\* log holds at most one marker entry.
C11_AtMostOneMarker == Cardinality(Markers(log)) <= 1

\* C11: a marker entry is appended by every step that turns the flag from
\* false to true while the file can be written, and by no other step; in
\* particular setDisableResponseStorage(true) with the flag already true
\* appends nothing.
C11_MarkerOnEachTurnToTrue ==
  [][ /\ (Markers(log') # Markers(log))
         => /\ ~disableResponseStorage /\ disableResponseStorage'
            /\ AppendedOne /\ Last(log') = MarkerEntry
      /\ (~disableResponseStorage /\ disableResponseStorage' /\ CanWrite)
         => (AppendedOne /\ Last(log') = MarkerEntry) ]_vars

\* The flag was turned on, off and on again, each time with a marker.
C11_Witness == disableResponseStorage /\ Cardinality(Markers(log)) = 2

\* C12: every entry of logRequest, logResponse (matched or not) and
\* logApiCycle carries the "storage disabled" note when it is formatted with
\* the flag true, and no entry formatted with the flag false carries it.
C12_EntryNotedIffFlag ==
  [][ (AppendedOne /\ Last(log').op \in {"logRequest", "logResponse", "logApiCycle"})
        => (Last(log').note = disableResponseStorage) ]_vars

\* C13: setDisableResponseStorage leaves the pending store and the
\* duplicate-guard set unchanged, and what logRequest and logResponse do to
\* the two, and whether a response is matched, is a function of the stores
\* and the call alone: the flag does not appear in it.
C13_FlagIsAdvisory ==
  [][ /\ \A d \in BOOLEAN :
           (apiLogger /\ SetDisableResponseStorage(d))
             => UNCHANGED <<pendingRequests, requestLogged>>
      /\ \A id \in CallerIds, site \in WholeCycleSites :
           (rev = "clean" /\ apiLogger /\ LogRequest(id, site)) =>
             IF enabled /\ id \notin requestLogged
               THEN /\ pendingRequests' = Put(pendingRequests, id, RecordOf(site))
                    /\ requestLogged' = requestLogged \cup {id}
               ELSE UNCHANGED <<pendingRequests, requestLogged>>
      /\ \A id \in CallerIds, c \in ChatResponses :
           (rev = "clean" /\ apiLogger /\ LogResponse(id, c, RealResp)) =>
             /\ requestLogged' = requestLogged
             /\ pendingRequests' =
                  IF id \in DOMAIN pendingRequests /\ AppendedOne
                    THEN Remove(pendingRequests, id) ELSE pendingRequests
             /\ AppendedOne =>
                  (Last(log').nomatch <=> id \notin DOMAIN pendingRequests) ]_vars

\* With the flag true, r1 was requested, matched by its response and
\* consumed, and a later response for r1 was classified as unmatched.
C13_Witness ==
  /\ disableResponseStorage
  /\ "r1" \notin DOMAIN pendingRequests
  /\ Len(Entries(log)) = 2
  /\ Entries(log)[1].op = "logResponse" /\ Entries(log)[1].note
  /\ CompletedEntry(Entries(log)[1]) /\ Entries(log)[1].id = "r1"
  /\ NoMatchEntry(Entries(log)[2]) /\ Entries(log)[2].id = "r1"

(***************************************************************************)
(* The sections of an entry.                                               *)
(***************************************************************************)
\* The position of a section in the request/response cycle: 1 the primary
\* request, 2 the translated request, 3 the translated response, 4 the
\* primary response.
SectionKind(label) ==
  CASE label = "RESPONSES FORMAT REQUEST" -> 1
    [] label = "CHAT COMPLETIONS FORMAT REQUEST (TRANSLATED)" -> 2
    [] label = "CHAT COMPLETIONS FORMAT RESPONSE" -> 3
    [] label \in {"RESPONSES FORMAT RESPONSE",
                  "RESPONSES FORMAT RESPONSE (BACK-TRANSLATED)"} -> 4
    [] OTHER -> 0
Kinds(e) == [i \in 1..Len(e.sections) |-> SectionKind(e.sections[i].label)]
Given(v) == v \notin {NullV, UndefV}
CycleKinds(chatRequest, chatResponse) ==
  <<1>> \o (IF Given(chatRequest) THEN <<2>> ELSE <<>>)
        \o (IF Given(chatResponse) THEN <<3>> ELSE <<>>) \o <<4>>

\* C14: the completed entry appended by a matched logResponse, and the entry
\* appended by logApiCycle, lists primary request, translated request,
\* translated response, primary response in that order; the translated
\* request is there iff one was recorded (passed), the translated response
\* iff one was passed; with neither, the entry has exactly the request and
\* the response.
C14_SectionsInCycleOrder ==
  [][ /\ \A id \in CallerIds, c \in ChatResponses :
           (rev = "clean" /\ enabled /\ id \in DOMAIN pendingRequests
              /\ AppendedOne /\ LogResponse(id, c, RealResp)) =>
             Kinds(Last(log')) =
               CycleKinds(Deref(pendingRequests[id].chatRequest), c)
      /\ \A site \in WholeCycleSites, c \in ChatResponses :
           (rev = "clean" /\ enabled /\ AppendedOne
              /\ LogApiCycle(site, c, RealResp)) =>
             Kinds(Last(log')) = CycleKinds(Deref(site.chatRequest), c) ]_vars

\* A matched logResponse wrote all four sections, and logApiCycle wrote an
\* entry with the request and the response alone.
C14_Witness ==
  /\ \E i \in 1..Len(log) :
       log[i].op = "logResponse" /\ Kinds(log[i]) = <<1, 2, 3, 4>>
  /\ \E i \in 1..Len(log) :
       log[i].op = "logApiCycle" /\ Kinds(log[i]) = <<1, 4>>

\* The primary response section of an entry: the final response, not the
\* note that it follows later.
PrimaryResponses(e) ==
  {i \in 1..Len(e.sections) :
     SectionKind(e.sections[i].label) = 4 /\ e.sections[i].body # PendingNote}

\* C15: in every entry with a primary response section (matched, unmatched,
\* logApiCycle), that section is labeled "(BACK-TRANSLATED)" iff the entry
\* has a translated response section.
C15_BackTranslatedIffTranslatedResponse ==
  \A i \in 1..Len(log) : \A k \in PrimaryResponses(log[i]) :
    (log[i].sections[k].label = "RESPONSES FORMAT RESPONSE (BACK-TRANSLATED)")
      <=> (3 \in {Kinds(log[i])[j] : j \in 1..Len(log[i].sections)})

\* The log holds an unmatched entry whose response is labeled as
\* back-translated and a logApiCycle entry whose response is not.
C15_Witness ==
  /\ \E i \in 1..Len(log) :
       /\ NoMatchEntry(log[i])
       /\ \E k \in PrimaryResponses(log[i]) :
            log[i].sections[k].label = "RESPONSES FORMAT RESPONSE (BACK-TRANSLATED)"
  /\ \E i \in 1..Len(log) :
       /\ log[i].op = "logApiCycle"
       /\ \E k \in PrimaryResponses(log[i]) :
            log[i].sections[k].label = "RESPONSES FORMAT RESPONSE"

(***************************************************************************)
(* sanitizeData.                                                           *)
(***************************************************************************)
\* The fields of payload p that hold credentials: authorization /
\* Authorization under headers or defaultHeaders, and the top-level apiKey.
HeaderSecretsOf(p) ==
  {<<hf, k>> \in HeaderFields \X AuthKeys :
     /\ hf \in DOMAIN p.f /\ p.f[hf].kind = "obj" /\ k \in DOMAIN p.f[hf].f}
HasApiKey(p) == "apiKey" \in DOMAIN p.f

\* Apart from the credential fields, c has the fields of q with the values
\* of q.
OtherFieldsEqual(c, q) ==
  /\ c.kind = "obj" /\ DOMAIN c.f = DOMAIN q.f
  /\ \A k \in DOMAIN q.f :
       CASE k = "apiKey" -> TRUE
         [] k \in HeaderFields /\ q.f[k].kind = "obj" ->
              /\ c.f[k].kind = "obj" /\ DOMAIN c.f[k].f = DOMAIN q.f[k].f
              /\ \A j \in DOMAIN q.f[k].f \ AuthKeys : c.f[k].f[j] = q.f[k].f[j]
         [] OTHER -> c.f[k] = q.f[k]

\* The step is the call sanitizeData(data) on the caller's object.
SanitizeCall == Len(clone) = 0 /\ Len(clone') = 1

\* C16, as stated: whenever p has an authorization / Authorization field
\* under headers or defaultHeaders, or a top-level apiKey, sanitizeData(p)
\* holds the marker there, and its other fields equal those of p.
C16_SecretsRedactedOthersEqual ==
  [][ SanitizeCall =>
        LET data == heap["o1"]
            copy == clone'[1] IN
        /\ \A pos \in HeaderSecretsOf(data) : copy.f[pos[1]].f[pos[2]] = REDACTED
        /\ HasApiKey(data) => copy.f["apiKey"] = REDACTED
        /\ OtherFieldsEqual(copy, data) ]_vars

\* What the copy is made from: the JSON round trip of a serializable
\* payload, the payload itself otherwise.
Copied(data) == IF Serializable(data) THEN JsonClone(data) ELSE data

\* C16: whenever p has a non-empty authorization / Authorization field
\* under headers or defaultHeaders, or a non-empty top-level apiKey,
\* sanitizeData(p) holds the marker there and not the original value; an
\* empty one is left as it is; the other fields of the copy equal those of
\* the JSON round trip of p (of p itself when p cannot be serialized).
C16_TruthySecretsRedacted ==
  [][ SanitizeCall =>
        LET data == heap["o1"]
            copy == clone'[1] IN
        /\ \A pos \in HeaderSecretsOf(data) :
             copy.f[pos[1]].f[pos[2]] =
               IF Truthy(data.f[pos[1]].f[pos[2]])
                 THEN REDACTED ELSE data.f[pos[1]].f[pos[2]]
        /\ HasApiKey(data) =>
             copy.f["apiKey"] =
               IF Truthy(data.f["apiKey"]) THEN REDACTED ELSE data.f["apiKey"]
        /\ OtherFieldsEqual(copy, Copied(data)) ]_vars

\* sanitizeData returned a copy with the marker under headers.Authorization,
\* under defaultHeaders.Authorization and in apiKey.
C16_Witness ==
  /\ Len(clone) >= 1
  /\ clone[1].kind = "obj"
  /\ {"headers", "defaultHeaders", "apiKey", "options"} \subseteq DOMAIN clone[1].f
  /\ clone[1].f["apiKey"] = REDACTED
  /\ Get(clone[1].f["headers"], "Authorization") = REDACTED
  /\ Get(clone[1].f["defaultHeaders"], "Authorization") = REDACTED

\* C17: sanitizeData leaves its argument as it was, the nested headers and
\* defaultHeaders included, for every payload, also for those that take the
\* shallow-copy fallback.
C17_InputNotMutated == [][ SanitizeCall => heap' = heap ]_vars

\* C18: sanitizeData applied to its own result returns that result.
C18_Idempotent == Len(clone) = 2 => clone[2] = clone[1]

\* sanitizeData was applied twice, and the first call redacted something.
C18_Witness ==
  /\ Len(clone) = 2
  /\ clone[1] # Copied(heap["o1"])
  /\ Get(clone[2], "apiKey") = REDACTED
  /\ Get(Get(clone[2], "headers"), "authorization") = REDACTED

\* C19: every key of headers or defaultHeaders that spells "authorization"
\* in some letter case and holds a value is overwritten with the marker.
C19_CaseVariantsRedacted ==
  [][ SanitizeCall =>
        \A hf \in HeaderFields, k \in AuthSpellings :
          Truthy(Get(Get(heap["o1"], hf), k))
            => Get(Get(clone'[1], hf), k) = REDACTED ]_vars

\* v holds one of the secrets, at any depth.
RECURSIVE Mentions(_)
Mentions(v) ==
  \/ v \in Secrets
  \/ v.kind = "obj" /\ \E k \in DOMAIN v.f : Mentions(v.f[k])

\* C20: no section of any entry in the log holds an original secret value,
\* whatever the shape of the payload and the depth of the field.
C20_NoSecretInLog ==
  \A i \in 1..Len(log) : \A j \in 1..Len(log[i].sections) :
    ~Mentions(log[i].sections[j].body)

(***************************************************************************)
(* Failures of the destination.                                            *)
(***************************************************************************)
\* C21: no call on the logger throws to its caller, and a call of
\* logRequest, logResponse, logApiCycle or setDisableResponseStorage whose
\* append fails, or whose payload cannot be serialized, reports the failure.
C21_FailuresCaughtAndReported ==
  [][ /\ apiLogger => ~threw'
      /\ (apiLogger /\ enabled /\ ~CanWrite) =>
           /\ \A id \in CallerIds, site \in Sites :
                (id \notin requestLogged /\ LogRequest(id, site)) => reported'
           /\ \A id \in CallerIds, c \in ChatResponses, r \in StreamedResponses :
                LogResponse(id, c, r) => reported'
           /\ \A site \in CycleSites, r \in CycleResponses :
                LogApiCycle(site, SiteChatResponse(site), r) => reported'
           /\ (~disableResponseStorage /\ SetDisableResponseStorage(TRUE))
                => reported'
      /\ (apiLogger /\ enabled) =>
           \A id \in CallerIds :
             (id \notin requestLogged /\ LogRequest(id, SiteC)) => reported' ]_vars

\* A call on an enabled logger met a destination that rejects writes: it
\* returned, the failure reported, nothing thrown.
C21_Witness ==
  /\ apiLogger /\ enabled /\ ~fsOk
  /\ reported /\ ~threw
  /\ hist["r1"] # "none"

\* The request of the record pending for id, if there is one, can be
\* serialized (clean revision / api-logger.ts revision).
PendingSerializable(id) ==
  id \in DOMAIN pendingRequests =>
    IF rev = "clean"
      THEN /\ Serializable(Deref(pendingRequests[id].request))
           /\ Serializable(Deref(pendingRequests[id].chatRequest))
      ELSE /\ Serializable(Deref(pendingRequests[id].responsesRequest))
           /\ Serializable(Deref(pendingRequests[id].chatRequest))

\* C22: the enabled flag of a constructed logger never changes, whatever
\* writes failed before; and a call made while the destination accepts
\* writes appends its entry, also after failed appends.
C22_FailedWriteKeepsLoggerEnabled ==
  [][ /\ apiLogger => enabled' = enabled
      /\ (apiLogger /\ enabled /\ CanWrite) =>
           /\ \A id \in CallerIds, site \in Sites :
                (rev = "clean" /\ id \notin requestLogged
                   /\ SitePayloadsSerializable(site) /\ LogRequest(id, site))
                  => AppendedOne
           /\ \A id \in CallerIds, c \in ChatResponses, r \in StreamedResponses :
                (rev = "clean" /\ PendingSerializable(id) /\ LogResponse(id, c, r))
                  => AppendedOne
           /\ \A id \in CallerIds, site \in NativeSites :
                (rev = "corr" /\ SitePayloadsSerializable(site)
                   /\ LogResponsesRequest(id, site))
                  => AppendedOne
           /\ \A id \in CallerIds :
                (rev = "corr" /\ PendingSerializable(id)
                   /\ LogResponsesResponse(id, RealResp, Direct("siteA")))
                  => AppendedOne ]_vars

\* The interim entry of r1 was lost to a failed write; the logger stayed
\* enabled and the completed entry of r1 was written afterwards.
C22_Witness ==
  /\ enabled /\ fsOk
  /\ hist["r1"] = "resp"
  /\ InterimsFor(log, "r1") = {}
  /\ CompletedFor(log, "r1") # {}

\* C23: the first getApiLogger() call returns a logger without throwing,
\* also when the log directory cannot be created.
C23_GetApiLoggerNeverThrows ==
  [][ (~apiLogger /\ GetApiLogger) => (apiLogger' /\ ~threw') ]_vars

(***************************************************************************)
(* The singleton.                                                          *)
(***************************************************************************)
\* C24: the first getApiLogger() call that returns creates the logger; from
\* then on that logger stays the process's logger: no step drops or
\* replaces it, and every later getApiLogger() call returns it as it is,
\* with its pending store, its guard set, its flags and its log file.
C24_OneLoggerPerProcess ==
  [][ /\ (~apiLogger /\ ~threw' /\ GetApiLogger) => apiLogger'
      /\ apiLogger =>
           /\ apiLogger'
           /\ GetApiLogger => (UNCHANGED <<loggerVars, fsVars>> /\ ~threw') ]_vars

\* The logger is in use: a request is pending in its store and its log
\* file holds the header and an entry.
C24_Witness ==
  /\ apiLogger /\ enabled
  /\ "r1" \in DOMAIN pendingRequests
  /\ Len(log) >= 2 /\ log[1] = Header

(***************************************************************************)
(* The life of a pending record.                                           *)
(***************************************************************************)
\* The request objects a pending record refers to.
RecordRefs(record) == {record.request, record.chatRequest} \cap DOMAIN heap

\* C25 (clean revision): a record in the pending store stays there, with
\* the same fields and the same request objects, through every step that
\* is not a logResponse call for its identifier.
C25_PendingUntilConsumed ==
  [][ rev = "clean" =>
        \A id \in DOMAIN pendingRequests :
          \/ /\ id \in DOMAIN pendingRequests'
             /\ pendingRequests'[id] = pendingRequests[id]
             /\ \A ref \in RecordRefs(pendingRequests[id]) : heap'[ref] = heap[ref]
          \/ \E c \in ChatResponses, r \in StreamedResponses :
               LogResponse(id, c, r) ]_vars

\* r1 is pending after a second logRequest(r1, ...) and after logApiCycle
\* stored a request of its own under a generated identifier.
C25_Witness ==
  /\ rev = "clean"
  /\ hist["r1"] = "req2"
  /\ {"r1", "g1"} \subseteq DOMAIN pendingRequests

(***************************************************************************)
(* One log file per API (api-logger.ts lines 384-519).                     *)
(***************************************************************************)
\* C26, as stated: on an enabled logger logResponsesApi appends exactly one
\* entry to the responses log file and nothing to the chat-completions log
\* file, and logChatCompletionsApi the other way round.
C26_OneEntryInOwnFile ==
  [][ (rev = "split" /\ enabled) =>
        \A request \in SplitRequests, response \in SplitResponses :
          /\ LogResponsesApi(request, response) =>
               /\ Len(responsesLog') = Len(responsesLog) + 1
               /\ chatCompLog' = chatCompLog
          /\ LogChatCompletionsApi(request, response) =>
               /\ Len(chatCompLog') = Len(chatCompLog) + 1
               /\ responsesLog' = responsesLog ]_vars

\* C26: on an enabled logger logResponsesApi appends exactly one
\* REQUEST / RESPONSE entry to the responses log file when both payloads
\* can be serialized and the file accepts the write, and nothing otherwise;
\* it never changes the chat-completions log file.  logChatCompletionsApi
\* does the same with the two files exchanged.
C26_OneEntryInOwnFileWhenWritten ==
  [][ (rev = "split" /\ enabled) =>
        \A request \in SplitRequests, response \in SplitResponses :
          LET written == /\ Serializable(request) /\ Serializable(response)
                         /\ CanWrite
              sections == <<"REQUEST", "RESPONSE">> IN
          /\ LogResponsesApi(request, response) =>
               /\ chatCompLog' = chatCompLog
               /\ IF written
                    THEN /\ Len(responsesLog') = Len(responsesLog) + 1
                         /\ SubSeq(responsesLog', 1, Len(responsesLog)) = responsesLog
                         /\ [k \in 1..2 |-> Last(responsesLog').sections[k].label]
                              = sections
                    ELSE responsesLog' = responsesLog
          /\ LogChatCompletionsApi(request, response) =>
               /\ responsesLog' = responsesLog
               /\ IF written
                    THEN /\ Len(chatCompLog') = Len(chatCompLog) + 1
                         /\ SubSeq(chatCompLog', 1, Len(chatCompLog)) = chatCompLog
                         /\ [k \in 1..2 |-> Last(chatCompLog').sections[k].label]
                              = sections
                    ELSE chatCompLog' = chatCompLog ]_vars

\* Each of the two files holds one entry, written by its own operation.
C26_Witness ==
  /\ rev = "split" /\ enabled
  /\ Len(responsesLog) = 1 /\ responsesLog[1].op = "logResponsesApi"
  /\ Len(chatCompLog) = 1 /\ chatCompLog[1].op = "logChatCompletionsApi"

(***************************************************************************)
(* Ownership of the pending record.                                        *)
(***************************************************************************)
\* The request sections of an entry.
RequestPart(e) == SelectSeq(e.sections, LAMBDA sec : sec.label \in RequestLabels)

\* C27: the request sections of a completed entry are the redacted payloads
\* as they were when logRequest was called, that is, those of the interim
\* entry written by that call, whatever the caller did to its request
\* objects in between.
C27_CompletedShowsRequestAsLogged ==
  \A i \in 1..Len(log), j \in 1..Len(log) :
    (InterimEntry(log[i]) /\ CompletedEntry(log[j]) /\ log[i].id = log[j].id)
      => RequestPart(log[j]) = RequestPart(log[i])

\* ---------------------------------------------------------------------------
\* C28
\* An object that carries a controller (its controller field holds a value).
CarriesController(r) == r.kind = "obj" /\ Get(r, "controller") # UndefV

\* The returned identifier is new: no pending record and no entry bears it.
FreshId(id) ==
  /\ id \notin DOMAIN pendingRequests
  /\ \A i \in 1..Len(log) : log[i].id # id

\* The returned identifier is pending with the request the caller gave.
PendingWith(id, site) ==
  /\ id \in DOMAIN pendingRequests'
  /\ pendingRequests'[id].responsesRequest = site.request

\* Exactly one entry was appended: the interim entry of that identifier.
InterimAppended(id) ==
  AppendedOne /\ InterimEntry(Last(log')) /\ Last(log').id = id

\* C28 as stated: handlePossibleStreamController returns a non-empty
\* identifier if and only if logging is enabled and the response is an object
\* with a controller field; the identifier is then fresh, pending with the
\* given request, and exactly one interim entry was appended; otherwise it
\* returns the empty string and leaves the store and the log unchanged.
C28_DeferAlwaysLogsInterim ==
  [][ \A site \in Sites, r \in Responses :
        (apiLogger /\ HandlePossibleStreamController(site, r)) =>
          IF enabled /\ CarriesController(r)
            THEN /\ returned' # "" /\ FreshId(returned')
                 /\ PendingWith(returned', site)
                 /\ InterimAppended(returned')
            ELSE returned' = "" /\ UNCHANGED <<pendingRequests, log>> ]_vars

\* C28: handlePossibleStreamController returns a non-empty identifier if and
\* only if logging is enabled and the response is an object with a controller
\* field; the identifier is then fresh and pending with the given request,
\* and exactly one interim entry was appended when the request can be
\* serialized and the destination takes the write, none when not; otherwise
\* it returns the empty string and leaves the store and the log unchanged.
C28_DeferCreatesPendingCall ==
  [][ \A site \in Sites, r \in Responses :
        (apiLogger /\ HandlePossibleStreamController(site, r)) =>
          IF enabled /\ CarriesController(r)
            THEN /\ returned' # "" /\ FreshId(returned')
                 /\ PendingWith(returned', site)
                 /\ IF CanWrite /\ Serializable(sanitizeData(Deref(site.request)))
                      THEN InterimAppended(returned')
                      ELSE log' = log
            ELSE returned' = "" /\ UNCHANGED <<pendingRequests, log>> ]_vars

\* A deferred call: the identifier handed back is pending with siteA's
\* request and its interim entry is the last entry of the log.
C28_Witness ==
  /\ rev = "corr" /\ enabled /\ returned # ""
  /\ returned \in DOMAIN pendingRequests
  /\ pendingRequests[returned].responsesRequest = SiteA.request
  /\ Len(log) > 0 /\ InterimEntry(Last(log)) /\ Last(log).id = returned

\* ---------------------------------------------------------------------------
\* C29
\* A public record operation of either revision that hands an entry to the
\* log write.
RecordOperation ==
  \/ \E id \in CallerIds, site \in Sites : LogRequest(id, site)
  \/ \E id \in CallerIds, c \in ChatResponses, r \in StreamedResponses :
       LogResponse(id, c, r)
  \/ \E site \in WholeCycleSites, r \in CycleResponses :
       LogApiCycle(site, SiteChatResponse(site), r)
  \/ \E id \in CallerIds, site \in NativeSites : LogResponsesRequest(id, site)

\* C29: logRequest, logResponse and logApiCycle return to the caller without
\* waiting for the append to complete: when the operation returns, the write
\* it fired has not been waited for, so the entry reaches the log in a later
\* step than the one in which the operation ran and returned.
C29_ReturnsBeforeWriteCompletes ==
  [][ (apiLogger /\ enabled /\ RecordOperation) => log' = log ]_vars

\* ---------------------------------------------------------------------------
\* C30
\* C30: in the clean revision every identifier in the pending store is also
\* in requestLogged, requestLogged never shrinks, and a logRequest call with
\* an identifier that is in requestLogged (still pending or already
\* consumed) is rejected: it changes neither the logger nor the log.
C30_GuardOutlivesPendingRecord ==
  /\ DOMAIN pendingRequests \subseteq requestLogged
  /\ [][ rev = "clean" =>
           /\ DOMAIN pendingRequests' \subseteq requestLogged'
           /\ requestLogged \subseteq requestLogged'
           /\ \A id \in requestLogged, site \in Sites :
                LogRequest(id, site) => UNCHANGED <<loggerVars, fsVars, heap>> ]_vars

\* r1 was accepted and has been consumed, and the identifier logApiCycle
\* generated for a deferred cycle is still pending; both are in requestLogged.
C30_Witness ==
  /\ rev = "clean" /\ enabled
  /\ hist["r1"] = "resp" /\ "r1" \in requestLogged \ DOMAIN pendingRequests
  /\ "g1" \in DOMAIN pendingRequests /\ "g1" \in requestLogged

\* ---------------------------------------------------------------------------
\* C31
\* C31: the log is append-only and grows by whole entries: once the logger
\* is constructed, every step (logRequest, logResponse, logApiCycle,
\* setDisableResponseStorage and the operations of the other revision
\* included) leaves the log as it is or appends exactly one entry to it, so
\* the log of a state is a prefix of the log of every later state.
C31_AppendOnlyByWholeEntries ==
  [][ apiLogger => (log' = log \/ AppendedOne) ]_vars

\* The log is full: the header, the storage marker and an entry of a
\* record operation were appended one after the other.
C31_Witness ==
  /\ apiLogger /\ Len(log) = 3
  /\ log[1] = Header
  /\ \E i \in 2..3 : log[i] = MarkerEntry
  /\ \E i \in 2..3 : log[i] # MarkerEntry

\* ---------------------------------------------------------------------------
\* C32
\* A logApiCycle call of an enabled logger with the response r.
EnabledCycle(site, r) ==
  /\ rev = "clean" /\ apiLogger /\ enabled
  /\ hist' = hist /\ fsOk' = fsOk
  /\ LogApiCycle(site, NullV, r)

\* The call stored one new pending record, holding the request given, under
\* an identifier no caller holds.
StoredUnderOwnId(site) ==
  \E id \in DOMAIN pendingRequests' \ DOMAIN pendingRequests :
    /\ id \notin CallerIds
    /\ DOMAIN pendingRequests' = DOMAIN pendingRequests \cup {id}
    /\ pendingRequests'[id].request = site.request
    /\ \A j \in DOMAIN pendingRequests : pendingRequests'[j] = pendingRequests[j]

\* The records stored under identifiers no caller holds stay as they are.
OwnIdsStayPending ==
  \A id \in DOMAIN pendingRequests \ CallerIds :
    id \in DOMAIN pendingRequests' /\ pendingRequests'[id] = pendingRequests[id]

\* C32 as stated: logApiCycle with a placeholder response stores a pending
\* record under an identifier it generates itself and does not return; that
\* record is never consumed and stays in the pending store in every later
\* state; logApiCycle with a non-placeholder response writes one completed
\* entry and leaves the pending store unchanged.
C32_CycleAlwaysWritesCompleted ==
  [][ /\ rev = "clean" => OwnIdsStayPending
      /\ \A site \in NativeSites, r \in Responses :
           EnabledCycle(site, r) =>
             IF CarriesController(r)
               THEN StoredUnderOwnId(site)
               ELSE /\ AppendedOne /\ CompletedEntry(Last(log'))
                    /\ pendingRequests' = pendingRequests ]_vars

\* C32: logApiCycle with a placeholder response stores a pending record
\* under an identifier it generates itself and does not return; that record
\* is never consumed and stays in the pending store in every later state;
\* logApiCycle with a non-placeholder response writes one completed entry
\* when its payloads can be serialized and the destination takes the write,
\* none when not, and leaves the pending store unchanged.
C32_DeferredCycleNeverConsumed ==
  [][ /\ rev = "clean" => OwnIdsStayPending
      /\ \A site \in NativeSites, r \in Responses :
           EnabledCycle(site, r) =>
             IF CarriesController(r)
               THEN StoredUnderOwnId(site)
               ELSE /\ IF CanWrite /\ CanFormat(Deref(site.request), NullV, NullV, r)
                         THEN AppendedOne /\ CompletedEntry(Last(log'))
                         ELSE log' = log
                    /\ pendingRequests' = pendingRequests ]_vars

\* The record of a deferred cycle is still pending after the caller's own
\* request was logged and consumed and a whole cycle was written.
C32_Witness ==
  /\ rev = "clean" /\ enabled
  /\ "g1" \in DOMAIN pendingRequests /\ "r1" \notin DOMAIN pendingRequests
  /\ hist["r1"] = "resp"
  /\ \E i \in 1..Len(log) : log[i].op = "logApiCycle"

=============================================================================
